---- MODULE Spec2Model ----
(***************************************************************************)
(* Model of src/src/pandora/bots/legacy.py: the interactive chat client    *)
(* (ChatBot) with its Session State (State), Prompt Records (ChatPrompt),  *)
(* conversation selector, command dispatcher and streamed-reply            *)
(* reconciliation.  One action is one stretch of the program between two   *)
(* points where it waits for the user or for the next stream event.        *)
(*                                                                         *)
(* Recursion (run -> __talk_loop -> __process_command -> run ...) is       *)
(* modelled by the innermost activation only: __talk_loop never returns    *)
(* normally, so an outer activation is resumed only by an exception that   *)
(* unwinds every frame, none of which catches it.                          *)
(***************************************************************************)
EXTENDS Integers, Sequences, FiniteSets, TLC

\* ------------------------------------------------------------------ bounds
MaxLen == 2          \* longest accumulated reply content of a stream
InitConvs == 2       \* most conversations the remote holds at start
MaxUuid == 5          \* last uuid the client may draw (1..4 go to the default records)
MaxChatUuid == 6      \* last uuid the client may draw in SpecChat (two messages)
MaxLines == 2         \* lines __get_input accumulates for one unit
MaxChain == 2         \* turns of a stored conversation in LoadInputs
PageSize == 1        \* page_size of the selector (the source's default is 20)

\* ------------------------------------------------------- program constants
MaxTitleLen == 64

\* ------------------------------------------------------------------ values
NoId == 0                       \* None as a message / parent id
NoConv == 0                     \* None as a conversation id
NoSlug == "None"                \* None as a model slug
NoText == <<"None">>            \* None as a prompt text (no one-character item)
NoTitle == <<"None">>           \* None as a title
NewChatTitle == <<"N", "e", "w", " ", "C", "h", "a", "t">>
RemoteTitle == <<"R">>          \* title the remote stores for a conversation
GeneratedTitle == <<"G">>       \* title gen_conversation_title returns

ReplyText == <<"a", "b", "c", "d", "e">>   \* the reply the remote generates
Prompts == {<<"h">>}            \* message texts the user types
TalkReplyId == 201              \* node id the remote gives to a reply
RegenReplyId == 202             \* node id the remote gives to a regenerated reply
RootId == 100                   \* node ids of a stored conversation
UserNodeId == 101
AsstNodeId == 102
Models == <<"m1", "m2">>        \* slugs list_models can return

Min(a, b) == IF a < b THEN a ELSE b

RECURSIVE Rep(_, _)
Rep(c, n) == IF n = 0 THEN <<>> ELSE Append(Rep(c, n - 1), c)

\* titles the user may type at the 'New title' prompt
TitleInputs == {Rep("x", MaxTitleLen), Rep("x", MaxTitleLen + 1)}

\* the accumulated contents a stream can carry: the reply's first n characters
Contents == {SubSeq(ReplyText, 1, n) : n \in 0..MaxLen}

IsPrefix(s, t) == Len(s) <= Len(t) /\ SubSeq(t, 1, Len(s)) = s

VARIABLES
    pc,          \* "init" | "select" | "talk" | "stream" | "exit" | "crash"
    raised,      \* the exception that ended the program, "none" while it runs
    state,       \* self.state: <<>> for None, <<record>> for a State
    heap,        \* the ChatPrompt objects: DU, DA (default arguments), UP
    nextUuid,    \* next value of uuid.uuid4()
    convs,       \* the remote's conversations, in listing order
    nextConv,    \* next conversation id the remote creates
    page,        \* selector: the page parameter of the active activation
    listing,     \* selector: the response of list_conversations
    stream,      \* reply stream: kind, first_prompt, p, emitted, last, got
    console,     \* the last status line printed by the last step
    calls,       \* the remote calls the last step made, in order
    lastInput,   \* the last input unit or selector choice read
    titleInput,  \* the last text entered at the 'New title' prompt
    origin,      \* how the current State was made: "none" | "new" | "loaded"
    exchanged,   \* a reply event was reconciled into the current State
    log,         \* what the last step loaded, asked about models, and opened
    input        \* __get_input: lines accumulated, lines typed, the unit returned

vars == <<pc, raised, state, heap, nextUuid, convs, nextConv, page, listing,
          stream, console, calls, lastInput, titleInput, origin, exchanged,
          log, input>>

\* ----------------------------------------------------------- ChatPrompt
\* uuid.uuid4(): the n-th call returns n
gen_message_id(next) == next

\* (mutant of ChatPrompt) the parent_id argument is ignored
ChatPromptNewParent(prompt, parent_id, message_id, next) ==
    [prompt |-> prompt, parent_id |-> gen_message_id(next),
     message_id |-> IF message_id # NoId THEN message_id ELSE gen_message_id(next + 1)]

\* ChatPrompt.__init__: an absent id is generated, parent_id first
ChatPrompt(prompt, parent_id, message_id, next) ==
    LET pid == IF parent_id # NoId THEN parent_id ELSE gen_message_id(next)
        nxt == IF parent_id # NoId THEN next ELSE next + 1
        mid == IF message_id # NoId THEN message_id ELSE gen_message_id(nxt)
    IN  [prompt |-> prompt, parent_id |-> pid, message_id |-> mid]

\* how many uuids that construction draws
UuidsDrawn(parent_id, message_id) ==
    (IF parent_id = NoId THEN 1 ELSE 0) + (IF message_id = NoId THEN 1 ELSE 0)

\* State.__init__ with its default arguments: user_prompt and chatgpt_prompt
\* are the two ChatPrompt objects built once, when the def statement ran
State(title, conversation_id, model_slug) ==
    [title |-> title, conversation_id |-> conversation_id, model_slug |-> model_slug,
     user_prompt |-> "DU", chatgpt_prompt |-> "DA"]

\* the slot UP before __talk has built a record, and after the State that
\* pointed to it was dropped (the object is unreachable then)
NoPrompt == [prompt |-> NoText, parent_id |-> NoId, message_id |-> NoId]

NoState == <<>>
HasState == state # NoState
S == state[1]

\* kind: who opened the stream; first_prompt and p: the locals of __talk and
\* __print_reply; emitted: all the text printed for this stream; last: the text
\* printed for the last event; got: an event was reconciled
NoStream == [kind |-> "none", first_prompt |-> FALSE, p |-> 0, emitted |-> <<>>,
             last |-> <<>>, got |-> FALSE]

NoListing == [total |-> 0, offset |-> 0, limit |-> 0, items |-> <<>>]

\* The last step's record.  result: <<r>> when get_conversation returned r;
\* history: the turns __load_conversation printed, in order; models, asked,
\* choice: the list __choice_model got, whether it prompted, and the answer;
\* opened: how many run() and __talk_loop() activations the step started (none
\* of them returns: __talk_loop is a while True without break).
NoLog == [result |-> <<>>, history |-> <<>>, models |-> <<>>, asked |-> FALSE,
          choice |-> 0, opened |-> 0]

\* __get_input before its first line.  lines: the local list; typed: every
\* line read for the unit, the closing one included; done: a unit was
\* returned; unit, kind, command: the unit, how __talk_loop took it
\* ("empty" | "command" | "message") and what __process_command made of it.
NoInput == [lines |-> <<>>, typed |-> <<>>, done |-> FALSE, unit |-> <<>>,
            kind |-> "none", command |-> "none"]

\* a remote call, as the collaborator sees it
Call(op, cid, mid, pid, text) ==
    [op |-> op, cid |-> cid, mid |-> mid, pid |-> pid, text |-> text]

\* ------------------------------------------------------------------- Init
\* ChatBot.__init__ has run; the module's def statements built DU and DA
Init ==
    /\ pc = "init"
    /\ raised = "none"
    /\ state = NoState
    /\ heap = [r \in {"DU", "DA", "UP"} |->
                 CASE r = "DU" -> ChatPrompt(NoText, NoId, NoId, 1)
                   [] r = "DA" -> ChatPrompt(NoText, NoId, NoId, 3)
                   [] OTHER    -> NoPrompt]
    /\ nextUuid = 5
    /\ \E n \in 0..InitConvs : convs = [i \in 1..n |-> i] /\ nextConv = InitConvs + 1
    /\ page = 1
    /\ listing = NoListing
    /\ stream = NoStream
    /\ console = "none"
    /\ calls = <<>>
    /\ lastInput = "none"
    /\ titleInput = <<>>
    /\ origin = "none"
    /\ exchanged = FALSE
    /\ log = NoLog
    /\ input = NoInput

\* ------------------------------------------------- the remote collaborator
\* list_conversations(offset, limit) over the conversations cv
ListConversations(cv, offset, limit) ==
    [total |-> Len(cv), offset |-> offset, limit |-> limit,
     items |-> SubSeq(cv, offset + 1, Min(offset + limit, Len(cv)))]

Node(id, parent, role, text, slug) ==
    [id |-> id, parent |-> parent,
     message |-> [role |-> role, text |-> text, model_slug |-> slug]]

\* the node chain root -> user -> assistant of a stored conversation
FullMapping ==
    [i \in {RootId, UserNodeId, AsstNodeId} |->
        CASE i = RootId     -> Node(RootId, NoId, "system", <<>>, NoSlug)
          [] i = UserNodeId -> Node(UserNodeId, RootId, "user", <<"q">>, NoSlug)
          [] OTHER          -> Node(AsstNodeId, UserNodeId, "assistant", <<"a">>, "m2")]

\* results get_conversation can return: the full chain, a chain whose last
\* reply is not stored, and a mapping that lacks a node of the chain
RemoteConversations ==
    { [title |-> RemoteTitle, current_node |-> AsstNodeId, mapping |-> FullMapping],
      [title |-> RemoteTitle, current_node |-> UserNodeId,
       mapping |-> [i \in {RootId, UserNodeId} |-> FullMapping[i]]],
      [title |-> RemoteTitle, current_node |-> AsstNodeId,
       mapping |-> [i \in {RootId, AsstNodeId} |-> FullMapping[i]]] }

Remove(cv, cid) == SelectSeq(cv, LAMBDA c : c # cid)

\* stored conversations of every shape up to MaxChain turns: node i of the
\* chain has id RootId + i, parent RootId + i - 1 and a role of its own; any
\* node can be the current one, and any one node can be absent from the mapping
ChainRoles == {"user", "assistant"}

ChainNode(i, roles) ==
    IF i = 0
    THEN Node(RootId, NoId, "system", <<>>, NoSlug)
    ELSE Node(RootId + i, RootId + i - 1, roles[i], <<ReplyText[i]>>,
              IF roles[i] = "assistant" THEN Models[((i - 1) % Len(Models)) + 1]
              ELSE NoSlug)

ChainResult(n, roles, cur, absent) ==
    [title |-> RemoteTitle,
     current_node |-> RootId + cur,
     mapping |-> [id \in {RootId + i : i \in 0..n} \ {RootId + i : i \in absent}
                    |-> ChainNode(id - RootId, roles)]]

LoadInputs ==
    UNION { { ChainResult(n, roles, cur, absent) :
                roles \in [1..n -> ChainRoles], cur \in 0..n,
                absent \in {{}} \cup {{i} : i \in 0..n} } : n \in 0..MaxChain }

\* ------------------------------------------------------------ pure helpers
\* __choice_conversation: first_page, last_page and the valid choices
FirstPage(conversations) == 0 = conversations.offset

\* (mutant of LastPage) > for >=
LastPageStrict(conversations) ==
    (conversations.offset + conversations.limit) > conversations.total

LastPage(conversations) ==
    (conversations.offset + conversations.limit) >= conversations.total

Choices(conversations) ==
    [letters |-> {"c"} \cup (IF ~LastPage(conversations) THEN {"n"} ELSE {})
                      \cup (IF ~FirstPage(conversations) THEN {"p"} ELSE {}),
     numbers |-> 1..Len(conversations.items)]

\* (mutant of ChoiceModel) the answer is ignored
ChoiceModelFirst(models, choice) == models[1]

\* __choice_model: a single model is taken without asking
ChoiceModel(models, choice) ==
    IF Len(models) = 1 THEN models[1] ELSE models[choice]

\* __load_conversation: the walk from current_node back to the root
RECURSIVE Walk(_, _, _)
Walk(mapping, current_node_id, nodes) ==
    IF current_node_id \notin DOMAIN mapping
    THEN [ok |-> FALSE, nodes |-> nodes]
    ELSE LET node == mapping[current_node_id]
         IN  IF node.parent = NoId
             THEN [ok |-> TRUE, nodes |-> nodes]
             ELSE Walk(mapping, node.parent, <<node>> \o nodes)

\* __load_conversation: the replay of the nodes into the State st and heap hp
RECURSIVE Replay(_, _, _)
Replay(nodes, st, hp) ==
    IF nodes = <<>> THEN [st |-> st, hp |-> hp]
    ELSE LET node == Head(nodes)
             message == node.message
             st1 == IF message.model_slug # NoSlug
                    THEN [st EXCEPT !.model_slug = message.model_slug] ELSE st
             ref == IF message.role = "user" THEN st1.user_prompt ELSE st1.chatgpt_prompt
             hp1 == [hp EXCEPT ![ref] = [prompt |-> message.text,
                                         parent_id |-> node.parent,
                                         message_id |-> node.id]]
         IN  Replay(Tail(nodes), st1, hp1)

\* (mutant of SetConversationTitle) >= for >: a title of 64 characters is refused
SetConversationTitleShort(st, new_title, ok) ==
    IF st.conversation_id = NoConv
    THEN [st |-> st, console |-> "not_created", calls |-> <<>>, asked |-> FALSE]
    ELSE IF Len(new_title) >= MaxTitleLen
    THEN [st |-> st, console |-> "title_too_long", calls |-> <<>>, asked |-> TRUE]
    ELSE LET call == Call("set_title", st.conversation_id, NoId, NoId, new_title)
         IN  IF ok
             THEN [st |-> [st EXCEPT !.title = new_title], console |-> "set_title_success",
                   calls |-> <<call>>, asked |-> TRUE]
             ELSE [st |-> st, console |-> "set_title_failed",
                   calls |-> <<call>>, asked |-> TRUE]

\* __set_conversation_title on the State st, the text typed and the remote's answer
SetConversationTitle(st, new_title, ok) ==
    IF st.conversation_id = NoConv
    THEN [st |-> st, console |-> "not_created", calls |-> <<>>, asked |-> FALSE]
    ELSE IF Len(new_title) > MaxTitleLen
    THEN [st |-> st, console |-> "title_too_long", calls |-> <<>>, asked |-> TRUE]
    ELSE LET call == Call("set_title", st.conversation_id, NoId, NoId, new_title)
         IN  IF ok
             THEN [st |-> [st EXCEPT !.title = new_title], console |-> "set_title_success",
                   calls |-> <<call>>, asked |-> TRUE]
             ELSE [st |-> st, console |-> "set_title_failed",
                   calls |-> <<call>>, asked |-> TRUE]

\* __del_conversation up to its call of run(): what happens for the State st,
\* the answer to 'Are you sure?' and the remote's answer
DelConversation(st, yes, ok) ==
    IF st.conversation_id = NoConv
    THEN [outcome |-> "not_created", console |-> "not_created", calls |-> <<>>]
    ELSE IF ~yes
    THEN [outcome |-> "declined", console |-> "none", calls |-> <<>>]
    ELSE LET call == Call("del", st.conversation_id, NoId, NoId, <<>>)
         IN  IF ok
             THEN [outcome |-> "deleted", console |-> "none", calls |-> <<call>>]
             ELSE [outcome |-> "failed", console |-> "del_failed", calls |-> <<call>>]

\* (mutant of Suffix) the cursor is ignored: the whole content is printed again
SuffixWholeContent(content, p) == content

\* __print_reply: the text beyond the cursor p, content[p:]
Suffix(content, p) == SubSeq(content, p + 1, Len(content))

\* (mutant of ReconcileState) the event's conversation id is dropped
ReconcileStateKeepsId(st, conversation_id) == st

\* __print_reply: the State takes the event's conversation id
ReconcileState(st, conversation_id) == [st EXCEPT !.conversation_id = conversation_id]

\* __print_reply: the assistant record takes the event's content and id, and
\* the user record's id as its parent
\* (mutant of ReconcilePrompt) the reply is linked to itself, not to the user turn
ReconcilePromptSelfParent(content, user_message_id, id) ==
    [prompt |-> content, parent_id |-> id, message_id |-> id]

ReconcilePrompt(content, user_message_id, id) ==
    [prompt |-> content, parent_id |-> user_message_id, message_id |-> id]

\* ------------------------------------------------ procedures (tails of steps)
\* Each sets pc, raised, state, heap, page, listing, origin, exchanged, calls
\* and log; cs are the remote calls the step made before it got here, k the
\* run() and __talk_loop() activations it started, the one that follows the
\* procedure included.

\* __choice_model: whether it asks ('Your choice')
ModelAsked(models) == Len(models) # 1

\* __new_conversation, then the talk loop
NewConversation(cs, k) ==
    \E n \in 1..Len(Models) : \E choice \in 1..n :
        LET models == SubSeq(Models, 1, n)
        IN  /\ state' = << [State(NoTitle, NoConv, ChoiceModel(models, choice))
                              EXCEPT !.title = NewChatTitle] >>
            /\ pc' = "talk"
            /\ origin' = "new"
            /\ exchanged' = FALSE
            /\ calls' = Append(cs, Call("list_models", NoConv, NoId, NoId, <<>>))
            /\ page' = 1
            /\ listing' = NoListing
            /\ heap' = [heap EXCEPT !["UP"] = NoPrompt]
            /\ log' = [NoLog EXCEPT !.models = models,
                                    !.asked = ModelAsked(models),
                                    !.choice = IF ModelAsked(models) THEN choice ELSE 0,
                                    !.opened = k]
            /\ UNCHANGED raised

\* (mutant of History) the turns are printed leaf first
HistoryLeafFirst(nodes) ==
    [i \in 1..Len(nodes) |->
        [banner |-> IF nodes[Len(nodes) + 1 - i].message.role = "user"
                    THEN "You:" ELSE "ChatGPT:",
         text |-> nodes[Len(nodes) + 1 - i].message.text,
         id |-> nodes[Len(nodes) + 1 - i].id]]

\* __load_conversation: the turns printed for the nodes, in order
History(nodes) ==
    [i \in 1..Len(nodes) |->
        [banner |-> IF nodes[i].message.role = "user" THEN "You:" ELSE "ChatGPT:",
         text |-> nodes[i].message.text,
         id |-> nodes[i].id]]

\* (mutant of LoadResult) a node missing from the mapping ends the walk
\* quietly and what was collected is replayed
LoadResultTruncated(conversation_id, cs, k, result) ==
    LET st0 == State(NoTitle, conversation_id, NoSlug)
        walk == Walk(result.mapping, result.current_node, <<>>)
        done == Replay(walk.nodes, [st0 EXCEPT !.title = result.title],
                       [heap EXCEPT !["UP"] = NoPrompt])
    IN  /\ calls' = Append(cs, Call("get", conversation_id, NoId, NoId, <<>>))
        /\ origin' = "loaded"
        /\ exchanged' = FALSE
        /\ page' = 1
        /\ listing' = NoListing
        /\ state' = <<done.st>>
        /\ heap' = done.hp
        /\ pc' = "talk"
        /\ log' = [NoLog EXCEPT !.result = <<result>>,
                                !.history = History(walk.nodes),
                                !.opened = k]
        /\ UNCHANGED raised

\* __load_conversation with the remote's answer result, then the talk loop
LoadResult(conversation_id, cs, k, result) ==
    LET st0 == State(NoTitle, conversation_id, NoSlug)
        walk == Walk(result.mapping, result.current_node, <<>>)
        done == Replay(walk.nodes, [st0 EXCEPT !.title = result.title],
                       [heap EXCEPT !["UP"] = NoPrompt])
    IN  /\ calls' = Append(cs, Call("get", conversation_id, NoId, NoId, <<>>))
        /\ origin' = "loaded"
        /\ exchanged' = FALSE
        /\ page' = 1
        /\ listing' = NoListing
        /\ IF walk.ok
           THEN /\ state' = <<done.st>>
                /\ heap' = done.hp
                /\ pc' = "talk"
                /\ log' = [NoLog EXCEPT !.result = <<result>>,
                                        !.history = History(walk.nodes),
                                        !.opened = k]
                /\ UNCHANGED raised
           ELSE /\ state' = <<st0>>
                /\ heap' = [heap EXCEPT !["UP"] = NoPrompt]
                /\ pc' = "crash"
                /\ raised' = "KeyError"
                /\ log' = [NoLog EXCEPT !.result = <<result>>]

\* __load_conversation, then the talk loop; results: what get_conversation
\* can return
LoadConversation(conversation_id, cs, k, results) ==
    IF conversation_id = NoConv
    THEN /\ pc' = "talk"
         /\ calls' = cs
         /\ page' = 1
         /\ listing' = NoListing
         /\ log' = [NoLog EXCEPT !.opened = k]
         /\ UNCHANGED <<raised, state, heap, origin, exchanged>>
    ELSE \E result \in results : LoadResult(conversation_id, cs, k, result)

\* __choice_conversation(page, page_size) up to its prompt; with no
\* conversation it returns None and run() starts a new one and its talk loop
ChoiceConversation(pg, cv, cs, k) ==
    LET conversations == ListConversations(cv, (pg - 1) * PageSize, PageSize)
        cs1 == Append(cs, Call("list", NoConv, NoId, NoId, <<>>))
    IN  IF conversations.total = 0
        THEN NewConversation(cs1, k + 1)
        ELSE /\ pc' = "select"
             /\ page' = pg
             /\ listing' = conversations
             /\ calls' = cs1
             /\ log' = [NoLog EXCEPT !.opened = k]
             /\ UNCHANGED <<raised, state, heap, origin, exchanged>>

\* run() up to the first prompt: one activation of run() is started
RunFrom(cv, cs) == ChoiceConversation(1, cv, cs, 1)

\* ---------------------------------------------------------------- actions
\* run(), called on the fresh ChatBot
Start ==
    /\ pc = "init"
    /\ UNCHANGED input
    /\ RunFrom(convs, <<>>)
    /\ titleInput' = <<>>
    /\ UNCHANGED <<nextUuid, convs, nextConv, stream, console, lastInput>>

\* ---- the selector's prompt, 'Your choice'
\* 'c': return None, so run() starts a new conversation
ChooseNew ==
    /\ pc = "select"
    /\ UNCHANGED input
    /\ "c" \in Choices(listing).letters
    /\ lastInput' = "c"
    /\ console' = "none"
    /\ NewConversation(<<>>, 1)
    /\ titleInput' = <<>>
    /\ UNCHANGED <<nextUuid, convs, nextConv, stream>>

\* 'n': the next page
ChooseNext ==
    /\ pc = "select"
    /\ UNCHANGED input
    /\ "n" \in Choices(listing).letters
    /\ lastInput' = "n"
    /\ console' = "none"
    /\ ChoiceConversation(page + 1, convs, <<>>, 0)
    /\ titleInput' = <<>>
    /\ UNCHANGED <<nextUuid, convs, nextConv, stream>>

\* 'p': the previous page
ChoosePrevious ==
    /\ pc = "select"
    /\ UNCHANGED input
    /\ "p" \in Choices(listing).letters
    /\ lastInput' = "p"
    /\ console' = "none"
    /\ ChoiceConversation(page - 1, convs, <<>>, 0)
    /\ titleInput' = <<>>
    /\ UNCHANGED <<nextUuid, convs, nextConv, stream>>

\* 't<idx>': rename on a temporary State, then the same page again
ChooseTitle ==
    /\ pc = "select"
    /\ UNCHANGED input
    /\ \E idx \in Choices(listing).numbers, new_title \in TitleInputs, ok \in BOOLEAN :
         LET r == SetConversationTitle(State(NoTitle, listing.items[idx], NoSlug),
                                       new_title, ok)
         IN  /\ lastInput' = "t"
             /\ titleInput' = IF r.asked THEN new_title ELSE <<>>
             /\ console' = r.console
             /\ ChoiceConversation(page, convs, r.calls, 0)
    /\ UNCHANGED <<nextUuid, convs, nextConv, stream>>

\* 'd<idx>': delete on a temporary State; __del_conversation calls run() after
\* a successful delete, otherwise the loop asks for the next choice
ChooseDelete ==
    /\ pc = "select"
    /\ UNCHANGED input
    /\ \E idx \in Choices(listing).numbers, yes \in BOOLEAN, ok \in BOOLEAN :
         LET r == DelConversation(State(NoTitle, listing.items[idx], NoSlug), yes, ok)
         IN  /\ lastInput' = "d"
             /\ console' = r.console
             /\ IF r.outcome = "deleted"
                THEN /\ convs' = Remove(convs, listing.items[idx])
                     /\ RunFrom(convs', r.calls)
                ELSE /\ calls' = r.calls
                     /\ log' = NoLog
                     /\ UNCHANGED <<convs, pc, raised, state, heap, page, listing,
                                    origin, exchanged>>
    /\ titleInput' = <<>>
    /\ UNCHANGED <<nextUuid, nextConv, stream>>

\* '<idx>': return the item, which run() loads
\* results: what get_conversation can return
ChooseItemFrom(results) ==
    /\ pc = "select"
    /\ UNCHANGED input
    /\ \E idx \in Choices(listing).numbers :
         /\ lastInput' = "#"
         /\ console' = "none"
         /\ LoadConversation(listing.items[idx], <<>>, 1, results)
    /\ titleInput' = <<>>
    /\ UNCHANGED <<nextUuid, convs, nextConv, stream>>

ChooseItem == ChooseItemFrom(RemoteConversations)

\* ---- the talk loop's prompt, 'You:'
\* (mutant of InputEmpty) break for continue: the loop ends and run() returns
InputEmptyBreaks ==
    /\ pc = "talk"
    /\ UNCHANGED input
    /\ log' = NoLog
    /\ lastInput' = ""
    /\ console' = "none"
    /\ calls' = <<>>
    /\ pc' = "exit"
    /\ titleInput' = <<>>
    /\ UNCHANGED <<raised, state, heap, nextUuid, convs, nextConv, page, listing,
                   stream, origin, exchanged>>

\* an empty input unit: the loop asks again
InputEmpty ==
    /\ pc = "talk"
    /\ UNCHANGED input
    /\ log' = NoLog
    /\ lastInput' = ""
    /\ console' = "none"
    /\ calls' = <<>>
    /\ titleInput' = <<>>
    /\ UNCHANGED <<pc, raised, state, heap, nextUuid, convs, nextConv, page, listing,
                   stream, origin, exchanged>>

\* /quit, /exit, /bye: raise KeyboardInterrupt
CmdQuit ==
    /\ pc = "talk"
    /\ UNCHANGED input
    /\ log' = NoLog
    /\ lastInput' = "/quit"
    /\ pc' = "exit"
    /\ raised' = "KeyboardInterrupt"
    /\ console' = "none"
    /\ calls' = <<>>
    /\ titleInput' = <<>>
    /\ UNCHANGED <<state, heap, nextUuid, convs, nextConv, page, listing, stream, origin, exchanged>>

\* /del, /delete, /remove
\* (mutant of CmdDel) after a successful deletion the talk loop goes on in
\* the deleted conversation
CmdDelStays ==
    /\ pc = "talk"
    /\ UNCHANGED input
    /\ \E yes \in BOOLEAN, ok \in BOOLEAN :
         LET r == DelConversation(S, yes, ok)
         IN  /\ lastInput' = "/del"
             /\ console' = r.console
             /\ convs' = IF r.outcome = "deleted"
                         THEN Remove(convs, S.conversation_id) ELSE convs
             /\ calls' = r.calls
             /\ log' = NoLog
             /\ UNCHANGED <<pc, raised, state, heap, page, listing, origin, exchanged>>
    /\ titleInput' = <<>>
    /\ UNCHANGED <<nextUuid, nextConv, stream>>

CmdDel ==
    /\ pc = "talk"
    /\ UNCHANGED input
    /\ \E yes \in BOOLEAN, ok \in BOOLEAN :
         LET r == DelConversation(S, yes, ok)
         IN  /\ lastInput' = "/del"
             /\ console' = r.console
             /\ IF r.outcome = "deleted"
                THEN /\ convs' = Remove(convs, S.conversation_id)
                     /\ RunFrom(convs', r.calls)
                ELSE /\ calls' = r.calls
                     /\ log' = NoLog
                     /\ UNCHANGED <<convs, pc, raised, state, heap, page, listing,
                                    origin, exchanged>>
    /\ titleInput' = <<>>
    /\ UNCHANGED <<nextUuid, nextConv, stream>>

\* /title, /set_title, /set-title
CmdTitle ==
    /\ pc = "talk"
    /\ UNCHANGED input
    /\ log' = NoLog
    /\ \E new_title \in TitleInputs, ok \in BOOLEAN :
         LET r == SetConversationTitle(S, new_title, ok)
         IN  /\ lastInput' = "/title"
             /\ titleInput' = IF r.asked THEN new_title ELSE <<>>
             /\ console' = r.console
             /\ calls' = r.calls
             /\ state' = <<r.st>>
    /\ UNCHANGED <<pc, raised, heap, nextUuid, convs, nextConv, page, listing, stream,
                   origin, exchanged>>

\* /select: run() again
CmdSelect ==
    /\ pc = "talk"
    /\ UNCHANGED input
    /\ lastInput' = "/select"
    /\ console' = "none"
    /\ RunFrom(convs, <<>>)
    /\ titleInput' = <<>>
    /\ UNCHANGED <<nextUuid, convs, nextConv, stream>>

\* /refresh, /reload: load the current conversation id
CmdRefreshFrom(results) ==
    /\ pc = "talk"
    /\ UNCHANGED input
    /\ lastInput' = "/refresh"
    /\ console' = "none"
    /\ LoadConversation(S.conversation_id, <<>>, 0, results)
    /\ titleInput' = <<>>
    /\ UNCHANGED <<nextUuid, convs, nextConv, stream>>

CmdRefresh == CmdRefreshFrom(RemoteConversations)

\* /new: a new conversation and a nested talk loop
CmdNew ==
    /\ pc = "talk"
    /\ UNCHANGED input
    /\ lastInput' = "/new"
    /\ console' = "none"
    /\ NewConversation(<<>>, 1)
    /\ titleInput' = <<>>
    /\ UNCHANGED <<nextUuid, convs, nextConv, stream>>

\* /regen, /regenerate: __regenerate_reply up to the first stream event
CmdRegen ==
    /\ pc = "talk"
    /\ UNCHANGED input
    /\ log' = NoLog
    /\ lastInput' = "/regen"
    /\ IF S.conversation_id = NoConv
       THEN /\ console' = "not_created"
            /\ calls' = <<>>
            /\ UNCHANGED <<pc, stream>>
       ELSE /\ console' = "none"
            /\ calls' = << Call("regen", S.conversation_id,
                                heap[S.user_prompt].message_id,
                                heap[S.user_prompt].parent_id,
                                heap[S.user_prompt].prompt) >>
            /\ stream' = [NoStream EXCEPT !.kind = "regen"]
            /\ pc' = "stream"
    /\ titleInput' = <<>>
    /\ UNCHANGED <<raised, state, heap, nextUuid, convs, nextConv, page, listing, origin, exchanged>>

\* /token, /cls, /clear, /ver, /version and every other command: output only
CmdPrint ==
    /\ pc = "talk"
    /\ UNCHANGED input
    /\ log' = NoLog
    /\ \E c \in {"/token", "/cls", "/ver", "/?"} :
         /\ lastInput' = c
         /\ console' = CASE c = "/token" -> "access_token"
                         [] c = "/cls"   -> "cleared"
                         [] c = "/ver"   -> "version"
                         [] OTHER        -> "usage"
    /\ calls' = <<>>
    /\ titleInput' = <<>>
    /\ UNCHANGED <<pc, raised, state, heap, nextUuid, convs, nextConv, page, listing,
                   stream, origin, exchanged>>

\* any other input unit: __talk up to the first stream event
TalkUpTo(last) ==
    /\ pc = "talk"
    /\ UNCHANGED input
    /\ log' = NoLog
    /\ nextUuid <= last
    /\ \E prompt \in Prompts :
         LET first_prompt == S.conversation_id = NoConv
             parent_id == heap[S.chatgpt_prompt].message_id
             user_prompt == ChatPrompt(prompt, parent_id, NoId, nextUuid)
         IN  /\ lastInput' = "message"
             /\ heap' = [heap EXCEPT !["UP"] = user_prompt]
             /\ nextUuid' = nextUuid + UuidsDrawn(parent_id, NoId)
             /\ state' = << [S EXCEPT !.user_prompt = "UP"] >>
             /\ calls' = << Call("talk", S.conversation_id, user_prompt.message_id,
                                 user_prompt.parent_id, prompt) >>
             /\ stream' = [NoStream EXCEPT !.kind = "talk", !.first_prompt = first_prompt]
    /\ pc' = "stream"
    /\ console' = "none"
    /\ titleInput' = <<>>
    /\ UNCHANGED <<raised, convs, nextConv, page, listing, origin, exchanged>>

Talk == TalkUpTo(MaxUuid)

\* ---- __print_reply, one step for each event of the stream
\* The remote sends cumulative contents: each event's content extends the one
\* before it; a reply keeps one node id for the whole stream.  The line breaks
\* printed for end_turn and at the end of the stream are not part of the
\* emitted text and are left out.
\* an event with a message: reconcile it into the State
ReplyEvent ==
    /\ pc = "stream"
    /\ UNCHANGED input
    /\ log' = NoLog
    /\ \E content \in Contents :
         LET previous == IF stream.got THEN heap[S.chatgpt_prompt].prompt ELSE <<>>
             text == Suffix(content, stream.p)
             created == S.conversation_id = NoConv
             conversation_id == IF created THEN nextConv ELSE S.conversation_id
             id == IF stream.kind = "regen" THEN RegenReplyId ELSE TalkReplyId
         IN  /\ IsPrefix(previous, content)
             /\ stream' = [stream EXCEPT
                             !.p = stream.p + Len(text),
                             !.emitted = stream.emitted \o text,
                             !.last = text,
                             !.got = TRUE]
             /\ state' = << ReconcileState(S, conversation_id) >>
             /\ heap' = [heap EXCEPT ![S.chatgpt_prompt] =
                            ReconcilePrompt(content, heap[S.user_prompt].message_id, id)]
             /\ convs' = IF created THEN <<nextConv>> \o convs ELSE convs
             /\ nextConv' = IF created THEN nextConv + 1 ELSE nextConv
    /\ exchanged' = TRUE
    /\ calls' = <<>>
    /\ titleInput' = <<>>
    /\ UNCHANGED <<pc, raised, nextUuid, page, listing, console, lastInput, origin>>

\* (mutant of ReplyError) the error is looked at after the State was updated
\* from the event, whose message is empty
ReplyErrorAfterUpdate ==
    /\ pc = "stream"
    /\ UNCHANGED input
    /\ log' = NoLog
    /\ pc' = "crash"
    /\ raised' = "RemoteGenerationError"
    /\ calls' = <<>>
    /\ heap' = [heap EXCEPT ![S.chatgpt_prompt] =
                   ReconcilePrompt(<<>>, heap[S.user_prompt].message_id, NoId)]
    /\ titleInput' = <<>>
    /\ UNCHANGED <<state, nextUuid, convs, nextConv, page, listing, stream, console,
                   lastInput, origin, exchanged>>

\* an event with an error: raise Exception(result['error'])
ReplyError ==
    /\ pc = "stream"
    /\ UNCHANGED input
    /\ log' = NoLog
    /\ pc' = "crash"
    /\ raised' = "RemoteGenerationError"
    /\ calls' = <<>>
    /\ titleInput' = <<>>
    /\ UNCHANGED <<state, heap, nextUuid, convs, nextConv, page, listing, stream, console,
                   lastInput, origin, exchanged>>

\* an event without a message: raise Exception('miss message property.')
ReplyMissing ==
    /\ pc = "stream"
    /\ UNCHANGED input
    /\ log' = NoLog
    /\ pc' = "crash"
    /\ raised' = "MalformedStream"
    /\ calls' = <<>>
    /\ titleInput' = <<>>
    /\ UNCHANGED <<state, heap, nextUuid, convs, nextConv, page, listing, stream, console,
                   lastInput, origin, exchanged>>

\* the stream ends; __talk asks for a title after the first prompt
ReplyEnd ==
    /\ pc = "stream"
    /\ UNCHANGED input
    /\ log' = NoLog
    /\ pc' = "talk"
    /\ stream' = NoStream
    /\ IF stream.kind = "talk" /\ stream.first_prompt
       THEN /\ calls' = << Call("gen_title", S.conversation_id,
                                heap[S.chatgpt_prompt].message_id, NoId, <<>>) >>
            /\ state' = << [S EXCEPT !.title = GeneratedTitle] >>
            /\ console' = "title_generated"
       ELSE /\ calls' = <<>>
            /\ UNCHANGED <<state, console>>
    /\ titleInput' = <<>>
    /\ UNCHANGED <<raised, heap, nextUuid, convs, nextConv, page, listing, lastInput, origin, exchanged>>

Next ==
    \/ Start
    \/ ChooseNew
    \/ ChooseNext
    \/ ChoosePrevious
    \/ ChooseTitle
    \/ ChooseDelete
    \/ ChooseItem
    \/ InputEmpty
    \/ CmdQuit
    \/ CmdDel
    \/ CmdTitle
    \/ CmdSelect
    \/ CmdRefresh
    \/ CmdNew
    \/ CmdRegen
    \/ CmdPrint
    \/ Talk
    \/ ReplyEvent
    \/ ReplyError
    \/ ReplyMissing
    \/ ReplyEnd

Spec == Init /\ [][Next]_vars

\* ------------------------------------------------------------ input framing
\* lines the user may type: sequences of one-character strings
EmptyLine == <<>>
Quit == <<"/", "q", "u", "i", "t">>
QuitUpper == <<"/", "Q", "U", "I", "T", " ", " ">>
QuitSpaced == <<" ", " ", "/", "Q", "U", "I", "T", " ", " ">>
Lines == {EmptyLine, Quit, QuitUpper, QuitSpaced, <<"/", "N", "e", "w">>, <<"/", "z", "z">>,
          <<"h", "i">>, <<"y", "o">>}

\* str.strip(): the whitespace at both ends goes
Whitespace == {" ", "\t", "\n", "\r", "\f"}

Strip(str) ==
    LET kept == {i \in 1..Len(str) : str[i] \notin Whitespace}
    IN  IF kept = {} THEN <<>>
        ELSE SubSeq(str, CHOOSE i \in kept : \A j \in kept : i <= j,
                         CHOOSE i \in kept : \A j \in kept : i >= j)

\* str.lower()
UpperCase == <<"A", "B", "C", "D", "E", "F", "G", "H", "I", "J", "K", "L", "M", "N", "O", "P", "Q", "R", "S", "T", "U", "V", "W", "X", "Y", "Z">>
LowerCase == <<"a", "b", "c", "d", "e", "f", "g", "h", "i", "j", "k", "l", "m", "n", "o", "p", "q", "r", "s", "t", "u", "v", "w", "x", "y", "z">>

Lower(str) ==
    [i \in 1..Len(str) |->
        IF \E k \in 1..Len(UpperCase) : UpperCase[k] = str[i]
        THEN LowerCase[CHOOSE k \in 1..Len(UpperCase) : UpperCase[k] = str[i]]
        ELSE str[i]]

\* '\n'.join(lines)
RECURSIVE Join(_)
Join(lines) ==
    IF lines = <<>> THEN <<>>
    ELSE IF Len(lines) = 1 THEN lines[1]
    ELSE lines[1] \o <<"\n">> \o Join(Tail(lines))

\* the table of __process_command applied to a stripped, lower-cased command:
\* the name the actions above use for it ("/?" is the usage listing)
CommandTable(command) ==
    CASE command \in {
                  <<"/", "q", "u", "i", "t">>,
                  <<"/", "e", "x", "i", "t">>,
                  <<"/", "b", "y", "e">>} -> "/quit"
      [] command \in {
                  <<"/", "d", "e", "l">>,
                  <<"/", "d", "e", "l", "e", "t", "e">>,
                  <<"/", "r", "e", "m", "o", "v", "e">>} -> "/del"
      [] command \in {
                  <<"/", "t", "i", "t", "l", "e">>,
                  <<"/", "s", "e", "t", "_", "t", "i", "t", "l", "e">>,
                  <<"/", "s", "e", "t", "-", "t", "i", "t", "l", "e">>} -> "/title"
      [] command \in {
                  <<"/", "s", "e", "l", "e", "c", "t">>} -> "/select"
      [] command \in {
                  <<"/", "r", "e", "f", "r", "e", "s", "h">>,
                  <<"/", "r", "e", "l", "o", "a", "d">>} -> "/refresh"
      [] command \in {
                  <<"/", "n", "e", "w">>} -> "/new"
      [] command \in {
                  <<"/", "r", "e", "g", "e", "n">>,
                  <<"/", "r", "e", "g", "e", "n", "e", "r", "a", "t", "e">>} -> "/regen"
      [] command \in {
                  <<"/", "t", "o", "k", "e", "n">>} -> "/token"
      [] command \in {
                  <<"/", "c", "l", "s">>,
                  <<"/", "c", "l", "e", "a", "r">>} -> "/cls"
      [] command \in {
                  <<"/", "v", "e", "r">>,
                  <<"/", "v", "e", "r", "s", "i", "o", "n">>} -> "/ver"
      [] OTHER -> "/?"

\* __process_command: which command the prompt is taken for
ProcessCommand(command) == CommandTable(Lower(Strip(command)))

\* __talk_loop: what it does with the unit __get_input returned
TalkLoopKind(prompt) ==
    IF prompt = <<>> THEN "empty"
    ELSE IF prompt[1] = "/" THEN "command"
    ELSE "message"

\* (mutant of GetInput) a command line is returned together with the lines
\* accumulated before it
GetInputKeepsLines(lines, line) ==
    IF line = <<>>
    THEN [done |-> TRUE, unit |-> Join(lines), lines |-> lines]
    ELSE IF line[1] = "/"
    THEN [done |-> TRUE, unit |-> Join(Append(lines, line)), lines |-> lines]
    ELSE [done |-> FALSE, unit |-> <<>>, lines |-> Append(lines, line)]

\* __get_input: one pass of its loop over the line read
GetInput(lines, line) ==
    IF line = <<>>
    THEN [done |-> TRUE, unit |-> Join(lines), lines |-> lines]
    ELSE IF line[1] = "/"
    THEN [done |-> TRUE, unit |-> line, lines |-> lines]
    ELSE [done |-> FALSE, unit |-> <<>>, lines |-> Append(lines, line)]

\* the talk prompt reads one line; when that ends the unit, __talk_loop
\* takes it as nothing, a command or a message (the actions above are what
\* it then does)
ReadLine ==
    /\ pc = "talk"
    /\ \E line \in Lines :
         LET lines == IF input.done THEN <<>> ELSE input.lines
             typed == IF input.done THEN <<>> ELSE input.typed
             got == GetInput(lines, line)
         IN  /\ got.done \/ Len(lines) < MaxLines
             /\ input' = [lines |-> got.lines,
                          typed |-> Append(typed, line),
                          done |-> got.done,
                          unit |-> got.unit,
                          kind |-> IF got.done THEN TalkLoopKind(got.unit) ELSE "none",
                          command |-> IF got.done /\ TalkLoopKind(got.unit) = "command"
                                      THEN ProcessCommand(got.unit) ELSE "none"]
    /\ console' = "none"
    /\ calls' = <<>>
    /\ lastInput' = "none"
    /\ titleInput' = <<>>
    /\ log' = NoLog
    /\ UNCHANGED <<pc, raised, state, heap, nextUuid, convs, nextConv, page, listing,
                   stream, origin, exchanged>>

\* Chatting alone: a new or a selected conversation and messages sent in it,
\* up to MaxChatUuid.
NextChat ==
    \/ Start
    \/ ChooseNew
    \/ ChooseItem
    \/ TalkUpTo(MaxChatUuid)
    \/ ReplyEvent
    \/ ReplyError
    \/ ReplyMissing
    \/ ReplyEnd

SpecChat == Init /\ [][NextChat]_vars

\* Loading alone, over every stored conversation of LoadInputs: the selector,
\* a selection, and one /refresh after it (a reload over seeded records).
NextLoad ==
    \/ Start
    \/ ChooseItemFrom(LoadInputs)
    \/ (log.opened # 0 /\ CmdRefreshFrom(LoadInputs))

SpecLoad == Init /\ [][NextLoad]_vars

\* The talk prompt alone: a conversation is opened and lines are typed.
NextInput ==
    \/ Start
    \/ ChooseNew
    \/ ReadLine

SpecInput == Init /\ [][NextInput]_vars

\* ------------------------------------------------------------------ claims
\* an id the remote assigned (node ids of stored conversations and of replies)
IsRemoteId(id) == id >= RootId

HasCall(cs, op) == \E i \in 1..Len(cs) : cs[i].op = op

\* C1: a newly created Session State has freshly constructed Prompt Records:
\* as long as nothing has been sent or received in a new chat, its user and
\* assistant records hold no text and no id that an earlier conversation wrote.
C1_FreshPromptRecords ==
    (HasState /\ origin = "new" /\ ~exchanged /\ S.user_prompt = "DU") =>
        \A ref \in {S.user_prompt, S.chatgpt_prompt} :
            /\ heap[ref].prompt = NoText
            /\ ~IsRemoteId(heap[ref].message_id)
            /\ ~IsRemoteId(heap[ref].parent_id)

\* C2: when a message is submitted, the new user record's parent id (and the
\* parent id sent to the remote) is the own id the assistant record held
\* just before the submission.
C2_ParentIsPriorAssistant ==
    [][(pc = "talk" /\ pc' = "stream" /\ stream'.kind = "talk") =>
          /\ heap'[S'.user_prompt].parent_id = heap[S.chatgpt_prompt].message_id
          /\ calls'[1].pid = heap[S.chatgpt_prompt].message_id]_vars

\* C2 witness: a message was submitted after a regenerated reply in a loaded
\* conversation, and its parent is that reply
C2_Witness ==
    /\ pc = "stream"
    /\ stream.kind = "talk"
    /\ origin = "loaded"
    /\ heap[S.user_prompt].parent_id = RegenReplyId

\* C3 (as stated): a Session State's conversation id is absent exactly when no
\* message has been exchanged in the session.
C3_AbsentIffNoExchange ==
    HasState => (S.conversation_id = NoConv <=> ~exchanged)

\* C3 (amended): a Session State's conversation id is absent exactly when the
\* State was created as a new chat and no reply event has been reconciled into
\* it; a loaded State has its id from the start.
C3_AbsentIffNewAndNoReply ==
    HasState => (S.conversation_id = NoConv <=> (origin = "new" /\ ~exchanged))

\* C3 witness: a new chat whose first exchange has been reconciled
C3_Witness ==
    /\ pc = "talk"
    /\ origin = "new"
    /\ exchanged
    /\ S.conversation_id # NoConv

\* C4: /del, /title, /refresh and /regen, given with no conversation id, report
\* 'conversation has not been created', make no remote call, leave the Session
\* State alone and return to the talk loop.
C4_NeedsIdReportsError ==
    [][(pc = "talk" /\ S.conversation_id = NoConv
           /\ lastInput' \in {"/del", "/title", "/refresh", "/regen"}) =>
          /\ console' = "not_created"
          /\ calls' = <<>>
          /\ state' = state
          /\ heap' = heap
          /\ pc' = "talk"]_vars

\* C5: while a stream of cumulative contents is reconciled, the text printed
\* so far is exactly the last event's content, the cursor is its length, and
\* the last event printed only what its content added.
C5_EmittedIsContent ==
    (pc = "stream" /\ stream.got) =>
        /\ stream.emitted = heap[S.chatgpt_prompt].prompt
        /\ stream.p = Len(stream.emitted)
        /\ Len(stream.last) <= Len(stream.emitted)
        /\ stream.last = SubSeq(stream.emitted,
                                Len(stream.emitted) - Len(stream.last) + 1,
                                Len(stream.emitted))

\* C5 witness: content "a" and then "ab": the second event printed "b" alone
C5_Witness ==
    /\ pc = "stream"
    /\ stream.emitted = <<"a", "b">>
    /\ stream.last = <<"b">>

\* C6: an event with an error ends the reconciliation and leaves the Session
\* State and its assistant record as the last reconciled event left them.
C6_ErrorLeavesAssistant ==
    [][(pc = "stream" /\ pc' = "crash" /\ raised' = "RemoteGenerationError") =>
          /\ state' = state
          /\ heap'[S.chatgpt_prompt] = heap[S.chatgpt_prompt]]_vars

\* C6 witness: the error came after an event had been reconciled
C6_Witness ==
    /\ pc = "crash"
    /\ raised = "RemoteGenerationError"
    /\ stream.got
    /\ heap[S.chatgpt_prompt].prompt = <<"a">>

\* inputs read at the talk loop's prompt
TalkInputs == {"", "/quit", "/del", "/title", "/select", "/refresh", "/new", "/regen",
               "/token", "/cls", "/ver", "/?", "message"}

\* C7 (as stated): the talk loop stops only after a quit command: when the
\* program has stopped after an input of the talk loop, that input was a quit
\* command.
C7_StopsOnlyOnQuit ==
    (pc \in {"exit", "crash"} /\ lastInput \in TalkInputs) => lastInput = "/quit"

\* C7 (amended): the program stops only by the exit signal of a quit command,
\* or by the failure of a reply stream or of a conversation load that
\* propagates as an exception; no other command or message stops it.
C7_StopsOnQuitOrFailure ==
    /\ pc = "exit" => (lastInput = "/quit" /\ raised = "KeyboardInterrupt")
    /\ pc = "crash" =>
          \/ raised \in {"RemoteGenerationError", "MalformedStream"}
                /\ lastInput \in {"message", "/regen"}
          \/ raised = "KeyError" /\ lastInput \in {"#", "/refresh"}
    /\ raised # "none" => pc \in {"exit", "crash"}

\* C7 witness: the loop was left by a quit command
C7_Witness ==
    /\ pc = "exit"
    /\ lastInput = "/quit"
    /\ HasState

\* C8: after d<idx> in the selector, whatever the answers, the selector is
\* still at its prompt on the same page and the talk loop was not entered
\* (stated for a page that has conversations after it, so that the page still
\* exists when one conversation is gone).
C8_DeleteStaysOnPage ==
    [][(pc = "select" /\ page * PageSize < Len(convs) /\ lastInput' = "d") =>
          (pc' = "select" /\ page' = page)]_vars

C10_TitleValidation ==
    [][(pc \in {"talk", "select"} /\ lastInput' \in {"/title", "t"} /\ titleInput' # <<>>) =>
          /\ Len(titleInput') > MaxTitleLen =>
                /\ ~HasCall(calls', "set_title")
                /\ lastInput' = "/title" => calls' = <<>>
                /\ console' = "title_too_long"
                /\ state' = state
          /\ Len(titleInput') = MaxTitleLen =>
                \E i \in 1..Len(calls') :
                    calls'[i].op = "set_title" /\ calls'[i].text = titleInput'
          /\ state' # state =>
                /\ lastInput' = "/title"
                /\ console' = "set_title_success"
                /\ state' = << [S EXCEPT !.title = titleInput'] >>]_vars

\* C10 witness: /title with exactly 64 characters was accepted
C10_Witness ==
    /\ pc = "talk"
    /\ lastInput = "/title"
    /\ Len(titleInput) = MaxTitleLen
    /\ S.title = titleInput
    /\ HasCall(calls, "set_title")
\* ---------------------------------------------------------------- loading
\* the node of id in the result r of get_conversation
NodeOf(r, id) == r.mapping[id]

\* the parent chain from r.current_node reaches the root inside the mapping
RECURSIVE ChainReachesRoot(_, _, _)
ChainReachesRoot(r, id, fuel) ==
    /\ id \in DOMAIN r.mapping
    /\ \/ NodeOf(r, id).parent = NoId
       \/ /\ fuel > 0
          /\ ChainReachesRoot(r, NodeOf(r, id).parent, fuel - 1)

PathComplete(r) == ChainReachesRoot(r, r.current_node, Cardinality(DOMAIN r.mapping))

\* h is the path of r from just below the root to current_node, in that order
IsRootToLeaf(r, h) ==
    IF NodeOf(r, r.current_node).parent = NoId
    THEN h = <<>>
    ELSE /\ h # <<>>
         /\ h[Len(h)].id = r.current_node
         /\ NodeOf(r, NodeOf(r, h[1].id).parent).parent = NoId
         /\ \A i \in 1..(Len(h) - 1) : NodeOf(r, h[i + 1].id).parent = h[i].id
         /\ \A i \in 1..Len(h) :
              /\ h[i].text = NodeOf(r, h[i].id).message.text
              /\ h[i].banner = IF NodeOf(r, h[i].id).message.role = "user"
                               THEN "You:" ELSE "ChatGPT:"

\* the record a Prompt Record seeded from the node of id holds
SeededFrom(r, id) ==
    [prompt |-> NodeOf(r, id).message.text,
     parent_id |-> NodeOf(r, id).parent,
     message_id |-> id]

\* the prompt record ref holds the last node of role on the path h, if any
HoldsLast(r, h, role, ref) ==
    \A i \in 1..Len(h) :
        ( /\ NodeOf(r, h[i].id).message.role = role
          /\ \A j \in (i + 1)..Len(h) : NodeOf(r, h[j].id).message.role # role )
        => heap[ref] = SeededFrom(r, h[i].id)

\* C11: after a load that succeeded, the history replayed is the parent chain
\* of current_node in root-to-leaf order without the root, the user record
\* holds text, id and parent of the last user node on it and the assistant
\* record those of the last assistant node on it.
C11_LoadReplaysChain ==
    (log.result # <<>> /\ pc = "talk") =>
        /\ IsRootToLeaf(log.result[1], log.history)
        /\ HoldsLast(log.result[1], log.history, "user", S.user_prompt)
        /\ HoldsLast(log.result[1], log.history, "assistant", S.chatgpt_prompt)

\* the chain root -> A(user) -> B(assistant) with current_node = B was loaded
C11_Witness ==
    /\ pc = "talk"
    /\ log.result # <<>>
    /\ log.result[1] = ChainResult(2, <<"user", "assistant">>, 2, {})
    /\ Len(log.history) = 2
    /\ log.history[1].id = RootId + 1
    /\ log.history[2].id = RootId + 2
    /\ heap[S.user_prompt] = [prompt |-> <<"a">>, parent_id |-> RootId,
                              message_id |-> RootId + 1]
    /\ heap[S.chatgpt_prompt] = [prompt |-> <<"b">>, parent_id |-> RootId + 1,
                                 message_id |-> RootId + 2]

\* C12: a load whose walk meets a node missing from the mapping fails loudly
\* (KeyError), replays no history and leaves both Prompt Records as they were.
C12_MissingNodeFails ==
    [][ (log'.result # <<>> /\ ~PathComplete(log'.result[1])) =>
            /\ pc' = "crash"
            /\ raised' = "KeyError"
            /\ log'.history = <<>>
            /\ heap'["DU"] = heap["DU"]
            /\ heap'["DA"] = heap["DA"] ]_vars

\* a load failed on a chain of two turns whose first turn is missing, over
\* records an earlier load had seeded
C12_Witness ==
    /\ pc = "crash"
    /\ raised = "KeyError"
    /\ log.result # <<>>
    /\ log.result[1].current_node = RootId + 2
    /\ RootId + 1 \notin DOMAIN log.result[1].mapping
    /\ heap["DA"].message_id # NoId /\ heap["DA"].message_id >= RootId

\* ---------------------------------------------------------------- titles
\* C13: title generation is requested only when the stream of a message sent
\* in a new chat ends, and only while the session has no generated title yet
\* (at most once per new conversation); its result becomes the title.
C13_TitleOncePerNewChat ==
    [][ HasCall(calls', "gen_title") =>
            /\ pc = "stream"
            /\ stream.kind = "talk"
            /\ origin = "new"
            /\ S.title # GeneratedTitle
            /\ state'[1].title = GeneratedTitle ]_vars

\* C19: every title-generation call carries a conversation id.
C19_GenTitleHasId ==
    \A i \in 1..Len(calls) : calls[i].op = "gen_title" => calls[i].cid # NoConv

\* ---------------------------------------------------------------- regenerate
\* the step reconciles a reply event of a regeneration
RegenReconciled == pc = "stream" /\ pc' = "stream" /\ stream.kind = "regen"

\* the step is /regen in a conversation that has an id
RegenSent == pc = "talk" /\ lastInput' = "/regen" /\ S.conversation_id # NoConv

\* C16 (as stated): /regen resubmits the user record's text, id and parent and
\* leaves it unchanged; reconciling the regenerated reply keeps the assistant
\* record's parent, which equals the user record's id, and changes at most the
\* assistant record's text and id.
C16_RegenOnlyTextAndId ==
    [][ /\ RegenSent =>
             /\ calls' = << Call("regen", S.conversation_id,
                                 heap[S.user_prompt].message_id,
                                 heap[S.user_prompt].parent_id,
                                 heap[S.user_prompt].prompt) >>
             /\ heap' = heap
        /\ RegenReconciled =>
             /\ \A ref \in DOMAIN heap \ {S.chatgpt_prompt} : heap'[ref] = heap[ref]
             /\ heap'[S.chatgpt_prompt].parent_id = heap[S.chatgpt_prompt].parent_id
             /\ heap'[S.chatgpt_prompt].parent_id = heap'[S.user_prompt].message_id ]_vars

\* C16 (amended): as above, except that the assistant record's parent is only
\* kept when it already was the user record's id; after the reconciliation it
\* always is.
C16_RegenLinksToUserTurn ==
    [][ /\ RegenSent =>
             /\ calls' = << Call("regen", S.conversation_id,
                                 heap[S.user_prompt].message_id,
                                 heap[S.user_prompt].parent_id,
                                 heap[S.user_prompt].prompt) >>
             /\ heap' = heap
        /\ RegenReconciled =>
             /\ \A ref \in DOMAIN heap \ {S.chatgpt_prompt} : heap'[ref] = heap[ref]
             /\ heap'[S.chatgpt_prompt].parent_id = heap'[S.user_prompt].message_id
             /\ (heap[S.chatgpt_prompt].parent_id = heap[S.user_prompt].message_id
                   => heap'[S.chatgpt_prompt].parent_id = heap[S.chatgpt_prompt].parent_id) ]_vars

\* a regenerated reply was reconciled over the reply of the last user turn
C16_Witness ==
    /\ pc = "stream"
    /\ stream.kind = "regen"
    /\ stream.got
    /\ heap[S.chatgpt_prompt].message_id = RegenReplyId
    /\ heap[S.chatgpt_prompt].parent_id = heap[S.user_prompt].message_id
    /\ heap[S.user_prompt].message_id = UserNodeId

\* ---------------------------------------------------------------- new chat
\* C17: a step that started a new chat leaves a Session State without
\* conversation id, titled "New Chat"; with one model it did not ask and the
\* slug is that model's, with more it asked and the slug is the one of the
\* index chosen.
C17_NewChatModel ==
    log.models # <<>> =>
        /\ pc = "talk"
        /\ S.conversation_id = NoConv
        /\ S.title = NewChatTitle
        /\ Len(log.models) = 1 => (~log.asked /\ S.model_slug = log.models[1])
        /\ Len(log.models) > 1 =>
             /\ log.asked
             /\ log.choice \in 1..Len(log.models)
             /\ S.model_slug = log.models[log.choice]

\* /new with a single model available
C17_Witness ==
    /\ lastInput = "/new"
    /\ log.models = <<Models[1]>>
    /\ ~log.asked
    /\ S.model_slug = Models[1]
    /\ S.conversation_id = NoConv
    /\ S.title = NewChatTitle

\* ---------------------------------------------------------------- nesting
\* the inputs that leave the current conversation or the current page
Reentrant == {"/select", "/new", "/del", "d"}

\* C18: /select, /new and a successful delete start no activation of run()
\* or __talk_loop() that stays on the stack (none ever returns), so the
\* nesting depth does not grow with the commands issued.
C18_DepthBounded ==
    [][ lastInput' \in Reentrant => log'.opened = 0 ]_vars

\* ---------------------------------------------------------------- deletion
\* the conversations the remote holds
Stored(cv) == {cv[i] : i \in 1..Len(cv)}

\* conversation ids are handed out in order, so some conversation was deleted
\* exactly when fewer are stored than were handed out
SomeDeleted == Len(convs) < nextConv - 1

RECURSIVE Offset(_, _)
Offset(ls, k) == IF k = 1 THEN 0 ELSE Offset(ls, k - 1) + Len(ls[k - 1]) + 1

\* u is the lines ls, in order, with a newline between neighbours
IsJoined(u, ls) ==
    IF ls = <<>> THEN u = <<>>
    ELSE /\ Len(u) = Offset(ls, Len(ls)) + Len(ls[Len(ls)])
         /\ \A k \in 1..Len(ls) :
              /\ SubSeq(u, Offset(ls, k) + 1, Offset(ls, k) + Len(ls[k])) = ls[k]
              /\ k < Len(ls) => u[Offset(ls, k) + Len(ls[k]) + 1] = "\n"

\* C14: the line "  /QUIT  ", typed at the talk prompt as a unit of its own,
\* is taken as the command /quit and not as a message.
C14_SpacedQuitExits ==
    (input.done /\ input.typed \in {<<QuitSpaced>>, <<QuitSpaced, EmptyLine>>}) =>
        /\ input.kind = "command"
        /\ input.command = "/quit"

\* C15: a unit ends with a blank line, and is then the lines typed before it
\* joined by newlines (nothing and no action when there are none), or with a
\* line that starts with '/', and is then that line alone, as a command,
\* whatever was typed before it; until then every line typed is accumulated.
C15_InputFraming ==
    LET t == input.typed
        before == SubSeq(t, 1, Len(t) - 1)
    IN  IF input.done
        THEN /\ t # <<>>
             /\ \A i \in 1..Len(before) : before[i] # <<>> /\ before[i][1] # "/"
             /\ t[Len(t)] = <<>> =>
                  /\ IsJoined(input.unit, before)
                  /\ input.kind = IF before = <<>> THEN "empty" ELSE "message"
             /\ t[Len(t)] # <<>> =>
                  /\ t[Len(t)][1] = "/"
                  /\ input.unit = t[Len(t)]
                  /\ input.kind = "command"
        ELSE /\ input.lines = t
             /\ input.kind = "none"

\* two lines and a blank line made one message
C15_Witness ==
    /\ input.done
    /\ input.typed = << <<"h", "i">>, <<"y", "o">>, EmptyLine >>
    /\ input.unit = <<"h", "i", "\n", "y", "o">>
    /\ input.kind = "message"

====
